---- MODULE Spec2Model ----
(***************************************************************************)
(* Batch orchestrator and per-profile pipeline of the LinkedIn lead        *)
(* profiling backend (backend/workflow.py, backend/main.py), together with *)
(* the record store (Airtable) it deduplicates against and upserts into.   *)
(*                                                                         *)
(* The Python backend is described by backend/CLAUDE.md (src/unnamed/      *)
(* part_006), README.md and spec.md; the definitions below follow those    *)
(* texts.  One job is modelled: its worker thread (the orchestrator), the  *)
(* pipeline threads it hands each profile to, and the store.              *)
(***************************************************************************)
EXTENDS Integers, Sequences, FiniteSets, TLC

VARIABLES
    input,        \* the identifiers submitted / returned by the reactions fetch
    pc,           \* position of the job's worker thread
    idx,          \* 1-based position of the loop in the capped list
    elapsed,      \* seconds the worker has waited for the current pipeline
    status,       \* jobs[job_id]["status"]
    current,      \* jobs[job_id]["progress"]["current"]
    total,        \* jobs[job_id]["progress"]["total"]
    leads,        \* jobs[job_id]["results"]
    skipped,      \* jobs[job_id]["skipped_profiles"]
    error,        \* jobs[job_id]["error"]
    runs,         \* pipeline threads, in the order the worker submitted them
    abandoned,    \* positions whose pipeline the worker stopped waiting for
    deduped,      \* positions skipped silently because the store had the URN
    store,        \* record store: sequence of rows
    initStore,    \* the store as it was when the job was submitted
    calls,        \* upserts applied by the sequential upsert driver
    page,         \* React state of the custom-evaluation page (its form fields)
    request,      \* body of the request the page posted to the backend
    rubric        \* criteria text the backend rendered for the evaluator

vars == <<input, pc, idx, elapsed, status, current, total,
          leads, skipped, error, runs, abandoned, deduped, store, initStore, calls,
          page, request, rubric>>

----------------------------------------------------------------------------
(* Program constants *)

MAX_REACTORS_PER_POST == 100
PROFILE_TIMEOUT_SECONDS == 180

(* Bounds of the model *)

NumNew == 3        \* a short batch draws its identifiers from 1..NumNew
MaxShort == 3      \* longest short batch
OverCap == 2       \* a long batch has up to this many identifiers past the cap
TickSeconds == 180 \* granularity of the wall clock
MaxTimeouts == 1   \* pipelines a job may abandon on timeout
MaxCalls == 3      \* upserts applied by the sequential upsert driver
MaxRuns == 2       \* longest batch of the specifications on short batches
NumPersons == 2    \* persons a job on two sources may be about
MaxText == 2       \* longest text typed in a field of the form

FitStrengths == {"High", "Medium", "Low"}
Judgements == {"Correct", "Incorrect", "Unsure"}
\* the answers the two models give in the runs explored
EvaluatorAnswers == {"High", "Low"}
ValidatorAnswers == {"Correct", "Incorrect"}
\* a skip reason is a pair: where the pipeline stopped, and the error
TimeoutReason == <<"Processing exceeded timeout", "TimeoutExceeded">>

\* the custom-evaluation page is not open; nothing was posted
NoPage == [open |-> FALSE]
NoRequest == [sent |-> FALSE]

Min(a, b) == IF a < b THEN a ELSE b

RECURSIVE SeqsUpTo(_, _)
SeqsUpTo(S, n) ==
    IF n = 0 THEN {<<>>}
    ELSE LET shorter == SeqsUpTo(S, n - 1)
         IN shorter \cup {Append(s, x) : s \in {t \in shorter : Len(t) = n - 1}, x \in S}

\* identifiers are opaque: a batch is taken up to renaming, its k-th distinct
\* identifier being k
Canonical(s) ==
    \A k \in 1..Len(s) : s[k] = 1 \/ \E j \in 1..(k - 1) : s[j] >= s[k] - 1

ShortInputs == {s \in SeqsUpTo(1..NumNew, MaxShort) : Canonical(s)}
LongInputs == {[i \in 1..(MAX_REACTORS_PER_POST + k) |-> i] : k \in 1..OverCap}

----------------------------------------------------------------------------
(* Record store *)

\* the reason the validator gives with a judgement it produced itself
ValidatorReason == "critique"

Row(urn, fit, judgement, vreason) ==
    [urn |-> urn, icp_fit_strength |-> fit, validation_judgement |-> judgement,
     validation_reason |-> vreason]

\* rows whose URN field equals urn
RowsOf(st, urn) == {i \in 1..Len(st) : st[i].urn = urn}

\* mutant: the query's formula matches every record of the table
UrnExistsAnyRecord(st, urn) == Len(st) > 0

\* mutant: the existence check is switched off
UrnExistsDisabled(st, urn) == FALSE

\* check whether a record with this URN exists
UrnExists(st, urn) == RowsOf(st, urn) # {}

\* exact-match query by identifier: first matching row, 0 when none
Lookup(st, urn) ==
    IF RowsOf(st, urn) = {} THEN 0
    ELSE CHOOSE i \in RowsOf(st, urn) : \A j \in RowsOf(st, urn) : i <= j

\* mutant: the record is always created, whatever the lookup found
WriteRecordAlwaysCreates(st, lead, found) == Append(st, lead)

\* create-or-update, given the result of the lookup
WriteRecord(st, lead, found) ==
    IF found >= 1 /\ found <= Len(st)
    THEN [st EXCEPT ![found] = lead]
    ELSE Append(st, lead)

Upsert(st, lead) == WriteRecord(st, lead, Lookup(st, lead.urn))

\* the elements of a set of numbers in ascending order
Ascending(S) ==
    [i \in 1..Cardinality(S) |->
        CHOOSE x \in S : Cardinality({y \in S : y < x}) = i - 1]

\* a table with one row per identifier of the set S
RowsFor(S) == [i \in 1..Cardinality(S) |-> Row(Ascending(S)[i], "Low", "Unsure", ValidatorReason)]

----------------------------------------------------------------------------
(* The job and its worker thread *)

\* mutant: the list is not capped
CappedNot(in) == in

\* step 1 of the batch: only the first MAX_REACTORS_PER_POST identifiers
Capped(in) == SubSeq(in, 1, Min(Len(in), MAX_REACTORS_PER_POST))

URNAt(k) == Capped(input)[k]

SkippedProfile(urn, reason) == [urn |-> urn, reason |-> reason]

NewRun(k, urn) ==
    [pos |-> k, urn |-> urn, stage |-> "Pending", reason |-> <<>>, fit |-> "",
     judgement |-> "", vreason |-> "", found |-> -1]

Terminal(r) == r.stage \in {"Done", "Skipped"}

Range(s) == {s[k] : k \in 1..Len(s)}

\* the identifiers of a batch that the store may not hold yet: all those of a
\* short batch, and of a long batch the one at the cap
MaybeNew(in) ==
    IF Len(in) <= MaxShort THEN Range(in) ELSE {in[MAX_REACTORS_PER_POST]}

Init ==
    /\ input \in ShortInputs \cup LongInputs
    /\ pc \in {"fetch", "start"}
    /\ idx = 1
    /\ elapsed = 0
    /\ status = "processing"
    /\ current = 0
    /\ total = 0
    /\ leads = <<>>
    /\ skipped = <<>>
    /\ error = ""
    /\ runs = <<>>
    /\ abandoned = {}
    /\ deduped = {}
    /\ \E known \in SUBSET MaybeNew(input) :
          store = RowsFor(known \cup (Range(Capped(input)) \ MaybeNew(input)))
    /\ initStore = store
    /\ calls = <<>>
    /\ page = NoPage
    /\ request = NoRequest
    /\ rubric = <<>>

\* fetch_post_reactions() returned the reactors; the list is capped and
\* progress.total is fixed to the capped size
FetchReactionsOk ==
    /\ pc = "fetch"
    /\ pc' = "loop"
    /\ total' = Len(Capped(input))
    /\ UNCHANGED <<input, idx, elapsed, status, current, leads,
                   skipped, error, runs, abandoned, deduped, store, initStore, calls,
                   page, request, rubric>>

\* the reaction list cannot be resolved at all: the job fails
FetchReactionsFail ==
    /\ pc = "fetch"
    /\ pc' = "done"
    /\ status' = "failed"
    /\ error' = "could not fetch post reactions"
    /\ UNCHANGED <<input, idx, elapsed, current, total, leads,
                   skipped, runs, abandoned, deduped, store, initStore, calls,
                   page, request, rubric>>

\* process_manual_profiles_tracked(): the list is the submitted one
StartManual ==
    /\ pc = "start"
    /\ pc' = "loop"
    /\ total' = Len(Capped(input))
    /\ UNCHANGED <<input, idx, elapsed, status, current, leads,
                   skipped, error, runs, abandoned, deduped, store, initStore, calls,
                   page, request, rubric>>

\* mutant: a deduplicated identifier is also listed as a SkippedProfile
SkipExistingListed ==
    /\ pc = "loop"
    /\ idx <= total
    /\ UrnExists(store, URNAt(idx))
    /\ deduped' = deduped \cup {idx}
    /\ skipped' = Append(skipped, SkippedProfile(URNAt(idx), "already processed"))
    /\ current' = current + 1
    /\ idx' = idx + 1
    /\ UNCHANGED <<input, pc, elapsed, status, total, leads,
                   error, runs, abandoned, store, initStore, calls,
                   page, request, rubric>>

\* mutant: a deduplicated identifier does not advance progress.current
SkipExistingUncounted ==
    /\ pc = "loop"
    /\ idx <= total
    /\ UrnExists(store, URNAt(idx))
    /\ deduped' = deduped \cup {idx}
    /\ idx' = idx + 1
    /\ UNCHANGED <<input, pc, elapsed, status, current, total, leads, skipped,
                   error, runs, abandoned, store, initStore, calls,
                   page, request, rubric>>

\* the URN is already in the store: neither Lead nor SkippedProfile; the
\* identifier is counted in total, and progress moves past it
SkipExisting ==
    /\ pc = "loop"
    /\ idx <= total
    /\ UrnExists(store, URNAt(idx))
    /\ deduped' = deduped \cup {idx}
    /\ current' = current + 1
    /\ idx' = idx + 1
    /\ UNCHANGED <<input, pc, elapsed, status, total, leads,
                   skipped, error, runs, abandoned, store, initStore, calls,
                   page, request, rubric>>

\* hand the profile to the executor and start waiting for its result
SubmitProfile ==
    /\ pc = "loop"
    /\ idx <= total
    /\ ~UrnExists(store, URNAt(idx))
    /\ runs' = Append(runs, NewRun(idx, URNAt(idx)))
    /\ pc' = "wait"
    /\ elapsed' = 0
    /\ UNCHANGED <<input, idx, status, current, total, leads,
                   skipped, error, abandoned, deduped, store, initStore, calls,
                   page, request, rubric>>

\* the run the worker is waiting for: the one submitted last
Awaited == runs[Len(runs)]

LeadOf(r) == Row(r.urn, r.fit, r.judgement, r.vreason)

\* the wall clock advances while the worker waits on the future
Tick ==
    /\ pc = "wait"
    /\ elapsed < PROFILE_TIMEOUT_SECONDS
    /\ elapsed' = elapsed + TickSeconds
    /\ UNCHANGED <<input, pc, idx, status, current, total, leads,
                   skipped, error, runs, abandoned, deduped, store, initStore, calls,
                   page, request, rubric>>

\* mutant: the newest lead is put in front of the results
CollectLeadInFront ==
    /\ pc = "wait"
    /\ Awaited.stage = "Done"
    /\ leads' = <<LeadOf(Awaited)>> \o leads
    /\ current' = current + 1
    /\ idx' = idx + 1
    /\ pc' = "loop"
    /\ UNCHANGED <<input, elapsed, status, total, skipped, error,
                   runs, abandoned, deduped, store, initStore, calls,
                   page, request, rubric>>

\* the pipeline returned a lead: append it to the results, advance current
CollectLead ==
    /\ pc = "wait"
    /\ Awaited.stage = "Done"
    /\ leads' = Append(leads, LeadOf(Awaited))
    /\ current' = current + 1
    /\ idx' = idx + 1
    /\ pc' = "loop"
    /\ UNCHANGED <<input, elapsed, status, total, skipped, error,
                   runs, abandoned, deduped, store, initStore, calls,
                   page, request, rubric>>

\* mutant: the skipped profile is listed and progress.current left as it was
CollectSkippedKeepsCurrent ==
    /\ pc = "wait"
    /\ Awaited.stage = "Skipped"
    /\ skipped' = Append(skipped, SkippedProfile(Awaited.urn, Awaited.reason))
    /\ idx' = idx + 1
    /\ pc' = "loop"
    /\ UNCHANGED <<input, elapsed, status, current, total, leads, error,
                   runs, abandoned, deduped, store, initStore, calls,
                   page, request, rubric>>

\* mutant: an error of one profile's pipeline fails the whole job
CollectSkippedAborts ==
    /\ pc = "wait"
    /\ Awaited.stage = "Skipped"
    /\ status' = "failed"
    /\ error' = "profile failed"
    /\ pc' = "done"
    /\ UNCHANGED <<input, idx, elapsed, current, total, leads, skipped,
                   runs, abandoned, deduped, store, initStore, calls,
                   page, request, rubric>>

\* mutant: the skipped list is rebuilt with the newest entry only
CollectSkippedReplaces ==
    /\ pc = "wait"
    /\ Awaited.stage = "Skipped"
    /\ skipped' = <<SkippedProfile(Awaited.urn, Awaited.reason)>>
    /\ current' = current + 1
    /\ idx' = idx + 1
    /\ pc' = "loop"
    /\ UNCHANGED <<input, elapsed, status, total, leads, error,
                   runs, abandoned, deduped, store, initStore, calls,
                   page, request, rubric>>

\* the pipeline failed: append it to skipped_profiles with its reason
CollectSkipped ==
    /\ pc = "wait"
    /\ Awaited.stage = "Skipped"
    /\ skipped' = Append(skipped, SkippedProfile(Awaited.urn, Awaited.reason))
    /\ current' = current + 1
    /\ idx' = idx + 1
    /\ pc' = "loop"
    /\ UNCHANGED <<input, elapsed, status, total, leads, error,
                   runs, abandoned, deduped, store, initStore, calls,
                   page, request, rubric>>

\* mutant: the worker joins the pipeline's thread before it moves on
TimeoutExceededJoins ==
    /\ pc = "wait"
    /\ elapsed >= PROFILE_TIMEOUT_SECONDS
    /\ Terminal(Awaited)
    /\ Cardinality(abandoned) < MaxTimeouts
    /\ skipped' = Append(skipped, SkippedProfile(Awaited.urn, TimeoutReason))
    /\ abandoned' = abandoned \cup {idx}
    /\ current' = current + 1
    /\ idx' = idx + 1
    /\ pc' = "loop"
    /\ UNCHANGED <<input, elapsed, status, total, leads, error,
                   runs, deduped, store, initStore, calls,
                   page, request, rubric>>

\* mutant: the worker gives up only on a pipeline that has returned
TimeoutWithinJoins(limit) ==
    /\ pc = "wait"
    /\ elapsed >= PROFILE_TIMEOUT_SECONDS
    /\ Terminal(Awaited)
    /\ Cardinality(abandoned) < limit
    /\ skipped' = Append(skipped, SkippedProfile(Awaited.urn, TimeoutReason))
    /\ abandoned' = abandoned \cup {idx}
    /\ current' = current + 1
    /\ idx' = idx + 1
    /\ pc' = "loop"
    /\ UNCHANGED <<input, elapsed, status, total, leads, error,
                   runs, deduped, store, initStore, calls,
                   page, request, rubric>>

\* future.result(timeout=PROFILE_TIMEOUT_SECONDS) timed out: the profile is
\* skipped and the batch continues with the next profile; the thread running
\* the pipeline is not stopped
TimeoutWithin(limit) ==
    /\ pc = "wait"
    /\ elapsed >= PROFILE_TIMEOUT_SECONDS
    /\ ~Terminal(Awaited)
    /\ Cardinality(abandoned) < limit
    /\ skipped' = Append(skipped, SkippedProfile(Awaited.urn, TimeoutReason))
    /\ abandoned' = abandoned \cup {idx}
    /\ current' = current + 1
    /\ idx' = idx + 1
    /\ pc' = "loop"
    /\ UNCHANGED <<input, elapsed, status, total, leads, error,
                   runs, deduped, store, initStore, calls,
                   page, request, rubric>>

\* the runs explored by Spec abandon at most MaxTimeouts pipelines
TimeoutExceeded == TimeoutWithin(MaxTimeouts)

\* mutant: completing the job replaces the progress record by a fresh one
CompleteResetsProgress ==
    /\ pc = "loop"
    /\ idx > total
    /\ status' = "completed"
    /\ pc' = "done"
    /\ current' = 0
    /\ UNCHANGED <<input, idx, elapsed, total, leads,
                   skipped, error, runs, abandoned, deduped, store, initStore, calls,
                   page, request, rubric>>

\* the list is exhausted
Complete ==
    /\ pc = "loop"
    /\ idx > total
    /\ status' = "completed"
    /\ pc' = "done"
    /\ UNCHANGED <<input, idx, elapsed, current, total, leads,
                   skipped, error, runs, abandoned, deduped, store, initStore, calls,
                   page, request, rubric>>

----------------------------------------------------------------------------
(* The per-profile pipeline, run by a thread of the executor *)

Advance(r, to) == [r EXCEPT !.stage = to]

Fail(r, reason) == [r EXCEPT !.stage = "Skipped", !.reason = reason]

pipeUnchanged ==
    UNCHANGED <<input, pc, idx, elapsed, status, current, total,
                leads, skipped, error, abandoned, deduped, initStore, calls,
                   page, request, rubric>>

\* the thread starts: fetch_profile_details() is called
PipeStart(i) ==
    /\ runs[i].stage = "Pending"
    /\ runs' = [runs EXCEPT ![i] = Advance(@, "Enriching")]
    /\ UNCHANGED store
    /\ pipeUnchanged

\* profile and company data fetched
EnrichOk(i) ==
    /\ runs[i].stage = "Enriching"
    /\ runs' = [runs EXCEPT ![i] = Advance(@, "Summarizing")]
    /\ UNCHANGED store
    /\ pipeUnchanged

\* mutant: a failed enrichment puts the profile back in line for a retry
EnrichFailRetries(i) ==
    /\ runs[i].stage = "Enriching"
    /\ runs' = [runs EXCEPT ![i] = Advance(@, "Pending")]
    /\ UNCHANGED store
    /\ pipeUnchanged

EnrichFail(i) ==
    /\ runs[i].stage = "Enriching"
    /\ \E e \in {"NotFound", "UpstreamError"} :
          runs' = [runs EXCEPT ![i] = Fail(@, <<"Enriching", e>>)]
    /\ UNCHANGED store
    /\ pipeUnchanged

SummarizeOk(i) ==
    /\ runs[i].stage = "Summarizing"
    /\ runs' = [runs EXCEPT ![i] = Advance(@, "Evaluating")]
    /\ UNCHANGED store
    /\ pipeUnchanged

SummarizeFail(i) ==
    /\ runs[i].stage = "Summarizing"
    /\ runs' = [runs EXCEPT ![i] = Fail(@, <<"Summarizing", "UpstreamError">>)]
    /\ UNCHANGED store
    /\ pipeUnchanged

EvaluateOk(i) ==
    /\ runs[i].stage = "Evaluating"
    /\ \E f \in EvaluatorAnswers :
          runs' = [runs EXCEPT ![i] = [Advance(@, "Validating") EXCEPT !.fit = f]]
    /\ UNCHANGED store
    /\ pipeUnchanged

EvaluateFail(i) ==
    /\ runs[i].stage = "Evaluating"
    /\ runs' = [runs EXCEPT ![i] = Fail(@, <<"Evaluating", "UpstreamError">>)]
    /\ UNCHANGED store
    /\ pipeUnchanged

ValidateOk(i) ==
    /\ runs[i].stage = "Validating"
    /\ \E j \in ValidatorAnswers :
          runs' = [runs EXCEPT ![i] = [Advance(@, "Persisting") EXCEPT
                                          !.judgement = j, !.vreason = ValidatorReason]]
    /\ UNCHANGED store
    /\ pipeUnchanged

ValidateFail(i) ==
    /\ runs[i].stage = "Validating"
    /\ runs' = [runs EXCEPT ![i] = Fail(@, <<"Validating", "UpstreamError">>)]
    /\ UNCHANGED store
    /\ pipeUnchanged

\* create_or_update_airtable_record(): query the table by URN
PersistLookup(i) ==
    /\ runs[i].stage = "Persisting"
    /\ runs[i].found = -1
    /\ runs' = [runs EXCEPT ![i].found = Lookup(store, runs[i].urn)]
    /\ UNCHANGED store
    /\ pipeUnchanged

\* mutant: the pipeline thread itself puts its lead in the job's results
PersistWriteReports(i) ==
    /\ runs[i].stage = "Persisting"
    /\ runs[i].found >= 0
    /\ store' = WriteRecord(store, LeadOf(runs[i]), runs[i].found)
    /\ runs' = [runs EXCEPT ![i] = Advance(@, "Done")]
    /\ leads' = Append(leads, LeadOf(runs[i]))
    /\ UNCHANGED <<input, pc, idx, elapsed, status, current, total, skipped, error,
                   abandoned, deduped, initStore, calls, page, request, rubric>>

\* create_or_update_airtable_record(): update the row found, or create one
PersistWrite(i) ==
    /\ runs[i].stage = "Persisting"
    /\ runs[i].found >= 0
    /\ store' = WriteRecord(store, LeadOf(runs[i]), runs[i].found)
    /\ runs' = [runs EXCEPT ![i] = Advance(@, "Done")]
    /\ pipeUnchanged

PersistFail(i) ==
    /\ runs[i].stage = "Persisting"
    /\ runs' = [runs EXCEPT ![i] = Fail(@, <<"Persisting", "UpstreamError">>)]
    /\ UNCHANGED store
    /\ pipeUnchanged

Next ==
    \/ FetchReactionsOk
    \/ FetchReactionsFail
    \/ StartManual
    \/ SkipExisting
    \/ SubmitProfile
    \/ Tick
    \/ CollectLead
    \/ CollectSkipped
    \/ TimeoutExceeded
    \/ Complete
    \/ \E i \in 1..Len(runs) : PipeStart(i)
    \/ \E i \in 1..Len(runs) : EnrichOk(i)
    \/ \E i \in 1..Len(runs) : EnrichFail(i)
    \/ \E i \in 1..Len(runs) : SummarizeOk(i)
    \/ \E i \in 1..Len(runs) : SummarizeFail(i)
    \/ \E i \in 1..Len(runs) : EvaluateOk(i)
    \/ \E i \in 1..Len(runs) : EvaluateFail(i)
    \/ \E i \in 1..Len(runs) : ValidateOk(i)
    \/ \E i \in 1..Len(runs) : ValidateFail(i)
    \/ \E i \in 1..Len(runs) : PersistLookup(i)
    \/ \E i \in 1..Len(runs) : PersistWrite(i)
    \/ \E i \in 1..Len(runs) : PersistFail(i)

Spec == Init /\ [][Next]_vars

----------------------------------------------------------------------------
(* The same job on short batches, with every outcome of the two model      *)
(* calls and no limit on the pipelines it may abandon                      *)

\* what the evaluator returns when its output holds no parseable JSON
EvaluatorDefault == "Unsure"
\* what the validator returns when its output cannot be parsed
ValidatorDefault == "Unsure"
ValidationUnavailable == "validation unavailable"

\* extract_json_from_text() finds no JSON object in the evaluator's output:
\* the evaluation falls back to the default with an empty reason
EvaluateUnparsed(i) ==
    /\ runs[i].stage = "Evaluating"
    /\ runs' = [runs EXCEPT ![i] =
                    [Advance(@, "Validating") EXCEPT !.fit = EvaluatorDefault]]
    /\ UNCHANGED store
    /\ pipeUnchanged

\* mutant: an unparseable validation fails the profile with a ParseError
ValidateUnparsedSkips(i) ==
    /\ runs[i].stage = "Validating"
    /\ runs' = [runs EXCEPT ![i] = Fail(@, <<"Validating", "ParseError">>)]
    /\ UNCHANGED store
    /\ pipeUnchanged

\* the validator's output cannot be parsed: the judgement defaults to Unsure
\* with the reason "validation unavailable"
ValidateUnparsed(i) ==
    /\ runs[i].stage = "Validating"
    /\ runs' = [runs EXCEPT ![i] =
                    [Advance(@, "Persisting") EXCEPT
                        !.judgement = ValidatorDefault,
                        !.vreason = ValidationUnavailable]]
    /\ UNCHANGED store
    /\ pipeUnchanged

InitSmall ==
    /\ Init
    /\ Len(input) <= MaxRuns

NextFull ==
    \/ FetchReactionsOk
    \/ FetchReactionsFail
    \/ StartManual
    \/ SkipExisting
    \/ SubmitProfile
    \/ Tick
    \/ CollectLead
    \/ CollectSkipped
    \/ TimeoutWithin(MaxRuns)
    \/ Complete
    \/ \E i \in 1..Len(runs) : PipeStart(i)
    \/ \E i \in 1..Len(runs) : EnrichOk(i)
    \/ \E i \in 1..Len(runs) : EnrichFail(i)
    \/ \E i \in 1..Len(runs) : SummarizeOk(i)
    \/ \E i \in 1..Len(runs) : SummarizeFail(i)
    \/ \E i \in 1..Len(runs) : EvaluateOk(i)
    \/ \E i \in 1..Len(runs) : EvaluateUnparsed(i)
    \/ \E i \in 1..Len(runs) : EvaluateFail(i)
    \/ \E i \in 1..Len(runs) : ValidateOk(i)
    \/ \E i \in 1..Len(runs) : ValidateUnparsed(i)
    \/ \E i \in 1..Len(runs) : ValidateFail(i)
    \/ \E i \in 1..Len(runs) : PersistLookup(i)
    \/ \E i \in 1..Len(runs) : PersistWrite(i)
    \/ \E i \in 1..Len(runs) : PersistFail(i)

SpecFull == InitSmall /\ [][NextFull]_vars

\* the steps of the job's worker thread
Worker ==
    \/ FetchReactionsOk
    \/ FetchReactionsFail
    \/ StartManual
    \/ SkipExisting
    \/ SubmitProfile
    \/ Tick
    \/ CollectLead
    \/ CollectSkipped
    \/ TimeoutWithin(MaxRuns)
    \/ Complete

\* the worker thread keeps being scheduled; nothing is assumed of the
\* pipeline threads, which may stop at any stage and never return
SpecLive == SpecFull /\ WF_vars(Worker)

----------------------------------------------------------------------------
(* The job while the Airtable integration is switched off (README.md,      *)
(* temporary notice): profiles are processed and returned, not saved       *)

\* the Store step is skipped: the lead is returned without being saved
PersistDisabled(i) ==
    /\ runs[i].stage = "Persisting"
    /\ runs' = [runs EXCEPT ![i] = Advance(@, "Done")]
    /\ UNCHANGED store
    /\ pipeUnchanged

NextDisabled ==
    \/ FetchReactionsOk
    \/ FetchReactionsFail
    \/ StartManual
    \/ SkipExisting
    \/ SubmitProfile
    \/ Tick
    \/ CollectLead
    \/ CollectSkipped
    \/ TimeoutWithin(MaxRuns)
    \/ Complete
    \/ \E i \in 1..Len(runs) : PipeStart(i)
    \/ \E i \in 1..Len(runs) : EnrichOk(i)
    \/ \E i \in 1..Len(runs) : EnrichFail(i)
    \/ \E i \in 1..Len(runs) : SummarizeOk(i)
    \/ \E i \in 1..Len(runs) : SummarizeFail(i)
    \/ \E i \in 1..Len(runs) : EvaluateOk(i)
    \/ \E i \in 1..Len(runs) : EvaluateUnparsed(i)
    \/ \E i \in 1..Len(runs) : EvaluateFail(i)
    \/ \E i \in 1..Len(runs) : ValidateOk(i)
    \/ \E i \in 1..Len(runs) : ValidateUnparsed(i)
    \/ \E i \in 1..Len(runs) : ValidateFail(i)
    \/ \E i \in 1..Len(runs) : PersistDisabled(i)

SpecDisabled == InitSmall /\ [][NextDisabled]_vars

----------------------------------------------------------------------------
(* Jobs on persons that an earlier job may have stored through either      *)
(* source.  Person p has two identifiers: the URN field of the scraper for *)
(* a post reactor, and the username of the profile URL for a manual entry  *)

\* post reactors: the scraper's URN field (e.g. urn:li:person:123456789)
ApifyUrn(p) == p

\* manual input: the LinkedIn username taken from the profile URL
ProfileId(p) == NumPersons + p

\* the identifier the job started at pc0 gives person p
IdentifierFor(pc0, p) == IF pc0 = "fetch" THEN ApifyUrn(p) ELSE ProfileId(p)

PersonSeqs == {s \in SeqsUpTo(1..NumPersons, MaxRuns) : Len(s) >= 1}

InitSources ==
    /\ pc \in {"fetch", "start"}
    /\ \E ps \in PersonSeqs :
          /\ input = [k \in 1..Len(ps) |-> IdentifierFor(pc, ps[k])]
          /\ \E known \in SUBSET ({ApifyUrn(q) : q \in Range(ps)}
                                      \cup {ProfileId(q) : q \in Range(ps)}) :
                store = RowsFor(known)
    /\ idx = 1
    /\ elapsed = 0
    /\ status = "processing"
    /\ current = 0
    /\ total = 0
    /\ leads = <<>>
    /\ skipped = <<>>
    /\ error = ""
    /\ runs = <<>>
    /\ abandoned = {}
    /\ deduped = {}
    /\ initStore = store
    /\ calls = <<>>
    /\ page = NoPage
    /\ request = NoRequest
    /\ rubric = <<>>

SpecSources == InitSources /\ [][NextFull]_vars

----------------------------------------------------------------------------
(* Sequential driver of the persistence adapter: upserts applied one after *)
(* the other to a table that holds at most one row per identifier          *)

SampleLeads ==
    {Row(u, f, j, ValidatorReason) :
        u \in 1..NumNew, f \in EvaluatorAnswers, j \in ValidatorAnswers}

InitUpsert ==
    /\ input = <<>>
    /\ pc = "idle"
    /\ idx = 1
    /\ elapsed = 0
    /\ status = "processing"
    /\ current = 0
    /\ total = 0
    /\ leads = <<>>
    /\ skipped = <<>>
    /\ error = ""
    /\ runs = <<>>
    /\ abandoned = {}
    /\ deduped = {}
    /\ \E known \in SUBSET (1..NumNew) : store = RowsFor(known)
    /\ initStore = store
    /\ calls = <<>>
    /\ page = NoPage
    /\ request = NoRequest
    /\ rubric = <<>>

UpsertCall(lead) ==
    /\ pc = "idle"
    /\ Len(calls) < MaxCalls
    /\ store' = Upsert(store, lead)
    /\ calls' = Append(calls, lead)
    /\ UNCHANGED <<input, pc, idx, elapsed, status, current, total, leads, skipped,
                   error, runs, abandoned, deduped, initStore, page, request, rubric>>

NextUpsert == \E lead \in SampleLeads : UpsertCall(lead)

SpecUpsert == InitUpsert /\ [][NextUpsert]_vars

----------------------------------------------------------------------------
(* The custom-evaluation page: its form, the criteria it posts, and the    *)
(* criteria text the backend renders from them.  A text is a sequence of   *)
(* characters                                                              *)

Chars == {" ", "a"}

\* what the user may have typed in a text field
Texts == SeqsUpTo(Chars, MaxText)

\* the options of the company-size select: "Any" (empty value) or a range
SizeOptions == {<<>>, <<"a">>}

\* the required description
Descriptions == {<<"a">>}

\* String.prototype.trim(): without leading and trailing white space
Trim(t) ==
    LET ink == {k \in 1..Len(t) : t[k] # " "}
    IN IF ink = {} THEN <<>>
       ELSE SubSeq(t, CHOOSE k \in ink : \A j \in ink : k <= j,
                      CHOOSE k \in ink : \A j \in ink : k >= j)

\* a string is truthy when it is not empty
Truthy(t) == Len(t) > 0

\* the optional form fields, in the order handleSubmit goes through them,
\* and the key each has in the criteria
OptionalFields ==
    <<"targetRoles", "targetIndustries", "companySize", "additionalRequirements">>

KeyOf ==
    [targetRoles |-> "target_roles", targetIndustries |-> "target_industries",
     companySize |-> "company_size",
     additionalRequirements |-> "additional_requirements"]

OptionalKeys == {KeyOf[OptionalFields[k]] : k \in 1..Len(OptionalFields)}

FieldOfKey(key) ==
    CHOOSE f \in Range(OptionalFields) : KeyOf[f] = key

\* mutant: every field is sent as typed, empty or not
CustomCriteriaAllFields(pg) ==
    [key \in {"use_case_description"} \cup OptionalKeys |->
        IF key = "use_case_description" THEN pg.useCaseDescription
        ELSE pg[FieldOfKey(key)]]

\* handleSubmit: the criteria object; an optional field is included, trimmed,
\* only if (field && field.trim())
CustomCriteria(pg) ==
    LET sent == {key \in OptionalKeys :
                    Truthy(pg[FieldOfKey(key)]) /\ Truthy(Trim(pg[FieldOfKey(key)]))}
    IN [key \in {"use_case_description"} \cup sent |->
           IF key = "use_case_description" THEN pg.useCaseDescription
           ELSE Trim(pg[FieldOfKey(key)])]

RubricLine(key, text) == [label |-> key, text |-> text]

\* format_custom_criteria(): the description, then one line for each
\* optional refinement that is present and not empty
FormatCustomCriteria(criteria) ==
    LET present == {k \in 1..Len(OptionalFields) :
                       /\ KeyOf[OptionalFields[k]] \in DOMAIN criteria
                       /\ Truthy(criteria[KeyOf[OptionalFields[k]]])}
    IN <<RubricLine("use_case_description", criteria["use_case_description"])>>
       \o [i \in 1..Cardinality(present) |->
              RubricLine(KeyOf[OptionalFields[Ascending(present)[i]]],
                         criteria[KeyOf[OptionalFields[Ascending(present)[i]]]])]

InitCriteria ==
    /\ input = <<>>
    /\ pc = "form"
    /\ idx = 1
    /\ elapsed = 0
    /\ status = "processing"
    /\ current = 0
    /\ total = 0
    /\ leads = <<>>
    /\ skipped = <<>>
    /\ error = ""
    /\ runs = <<>>
    /\ abandoned = {}
    /\ deduped = {}
    /\ store = <<>>
    /\ initStore = store
    /\ calls = <<>>
    /\ page \in [open : {TRUE}, isProcessing : {FALSE},
                  useCaseDescription : Descriptions, targetRoles : Texts,
                  targetIndustries : Texts, companySize : SizeOptions,
                  additionalRequirements : Texts]
    /\ request = NoRequest
    /\ rubric = <<>>

\* handleSubmit(): build the criteria and post them
HandleSubmit ==
    /\ pc = "form"
    /\ page.open /\ ~page.isProcessing
    /\ page' = [page EXCEPT !.isProcessing = TRUE]
    /\ request' = [sent |-> TRUE, custom_criteria |-> CustomCriteria(page)]
    /\ pc' = "posted"
    /\ UNCHANGED <<input, idx, elapsed, status, current, total, leads, skipped,
                   error, runs, abandoned, deduped, store, initStore, calls, rubric>>

\* the backend renders the criteria it received for the evaluator's prompt
RenderRubric ==
    /\ pc = "posted"
    /\ request.sent
    /\ rubric' = FormatCustomCriteria(request.custom_criteria)
    /\ pc' = "rendered"
    /\ UNCHANGED <<input, idx, elapsed, status, current, total, leads, skipped,
                   error, runs, abandoned, deduped, store, initStore, calls,
                   page, request>>

NextCriteria == HandleSubmit \/ RenderRubric

SpecCriteria == InitCriteria /\ [][NextCriteria]_vars

----------------------------------------------------------------------------
(* Outcomes of the positions of a batch *)

NumCapped == Len(Capped(input))

RunIndices == 1..Len(runs)

\* positions whose pipeline result the worker has taken as a Lead
LeadPos ==
    {runs[i].pos : i \in {j \in RunIndices :
        runs[j].pos < idx /\ runs[j].pos \notin abandoned /\ runs[j].stage = "Done"}}

\* positions the worker has recorded as a SkippedProfile
SkipPos ==
    {runs[i].pos : i \in {j \in RunIndices :
        runs[j].pos < idx /\ (runs[j].pos \in abandoned \/ runs[j].stage = "Skipped")}}

UrnsOf(seq) == [k \in 1..Len(seq) |-> seq[k].urn]

\* the identifiers at the positions of P among the first k, in input order
PickUrns(P, k) ==
    LET Q == P \cap (1..k)
    IN [i \in 1..Cardinality(Q) |-> URNAt(Ascending(Q)[i])]

OneOf(a, b, c) == (a /\ ~b /\ ~c) \/ (~a /\ b /\ ~c) \/ (~a /\ ~b /\ c)

LeadUrns == Range(UrnsOf(leads))
SkippedUrns == Range(UrnsOf(skipped))
DedupUrns == {URNAt(k) : k \in deduped}

----------------------------------------------------------------------------
(* Claims *)

\* C1 (as stated): when the job is completed, every identifier of the capped
\* input is in exactly one of the three outcome sets deduplicated, leads,
\* skipped, and the three counts add up to the length of the capped input.
C1_EachIdentifierOneOutcome ==
    status = "completed" =>
        /\ \A u \in Range(Capped(input)) :
              OneOf(u \in DedupUrns, u \in LeadUrns, u \in SkippedUrns)
        /\ Len(leads) + Len(skipped) + Cardinality(deduped) = NumCapped

\* C1 (amended): when the job is completed, every position of the capped
\* input has exactly one of the three outcomes deduplicated, Lead, skipped,
\* the leads and skipped lists hold exactly the identifiers at those
\* positions, and the three counts add up to the length of the capped input.
C1_EachPositionOneOutcome ==
    status = "completed" =>
        /\ \A k \in 1..NumCapped : OneOf(k \in deduped, k \in LeadPos, k \in SkipPos)
        /\ UrnsOf(leads) = PickUrns(LeadPos, NumCapped)
        /\ UrnsOf(skipped) = PickUrns(SkipPos, NumCapped)
        /\ Len(leads) + Len(skipped) + Cardinality(deduped) = NumCapped

\* a completed batch in which one identifier was skipped, then processed into
\* a Lead, then deduplicated
C1_Witness ==
    /\ status = "completed"
    /\ NumCapped = 3
    /\ deduped # {} /\ leads # <<>> /\ skipped # <<>>
    /\ URNAt(1) = URNAt(2) /\ URNAt(2) = URNAt(3)

C3_CurrentBoundedMonotone ==
    /\ [](current <= total)
    /\ [][current' >= current]_vars

C3_Witness ==
    /\ status = "completed"
    /\ total = MAX_REACTORS_PER_POST
    /\ current = total
    /\ skipped # <<>>

\* the worker stops waiting for a pipeline that has not returned
GivesUpWaiting == pc = "wait" /\ pc' # "wait" /\ ~Terminal(Awaited)

C5_AbandonedNeverPersisted ==
    /\ [][\A i \in RunIndices :
            (runs[i].pos \in abandoned /\ runs'[i] # runs[i]) => store' = store]_vars
    /\ [](UrnsOf(leads) = PickUrns(LeadPos, Min(idx - 1, NumCapped)))

AllNewDistinct ==
    /\ \A k \in 1..NumCapped : RowsOf(initStore, URNAt(k)) = {}
    /\ \A j, k \in 1..NumCapped : URNAt(j) = URNAt(k) => j = k

EnrichUpstreamError == <<"Enriching", "UpstreamError">>

\* position k is the only one whose pipeline failed, at enrichment with an
\* upstream error, and every other pipeline returned a Lead within its budget
OnlyEnrichmentFailedAt(k) ==
    /\ AllNewDistinct
    /\ abandoned = {}
    /\ Len(runs) = NumCapped
    /\ \A i \in RunIndices :
          IF runs[i].pos = k
          THEN runs[i].stage = "Skipped" /\ runs[i].reason = EnrichUpstreamError
          ELSE runs[i].stage = "Done"

\* C6: in a completed batch of new identifiers in which only the enrichment
\* of one profile failed with an upstream error, skipped holds exactly that
\* profile with the error as its reason, and leads holds the other
\* identifiers in input order.
C6_OneFailureOthersInOrder ==
    \A k \in 1..NumCapped :
        (status = "completed" /\ OnlyEnrichmentFailedAt(k)) =>
            /\ skipped = <<SkippedProfile(URNAt(k), EnrichUpstreamError)>>
            /\ UrnsOf(leads) = PickUrns((1..NumCapped) \ {k}, NumCapped)

C6_Witness ==
    /\ status = "completed"
    /\ NumCapped = 3
    /\ OnlyEnrichmentFailedAt(2)
    /\ Len(leads) = 2

\* C7: the status becomes failed only at the fetch of the identifier list,
\* before any pipeline exists; recording a skipped profile leaves the job
\* processing and the loop at the next position; no step of a pipeline
\* changes the status; a completed job has gone through the whole list.
C7_OnlyFetchFailsTheJob ==
    /\ [][(status' = "failed" /\ status # "failed") => (pc = "fetch" /\ runs = <<>>)]_vars
    /\ [][(pc = "wait" /\ Awaited.stage = "Skipped" /\ pc' # "wait") =>
            (status' = "processing" /\ pc' = "loop" /\ idx' = idx + 1)]_vars
    /\ [][GivesUpWaiting => (status' = "processing" /\ pc' = "loop" /\ idx' = idx + 1)]_vars
    /\ [][runs' # runs => status' = status]_vars
    /\ [](status = "completed" => idx = total + 1)

\* a completed job with a timed-out profile, a failed profile and, after
\* both, a Lead
C7_Witness ==
    /\ status = "completed"
    /\ Len(skipped) = 2
    /\ skipped[1].reason = TimeoutReason
    /\ skipped[2].reason # TimeoutReason
    /\ LeadPos = {3}

RunUrns == {runs[i].urn : i \in RunIndices}

PastCap == Range(input) \ Range(SubSeq(input, 1, Min(Len(input), MAX_REACTORS_PER_POST)))

\* C9: total is at most 100, the loop never goes past position 100, and an
\* identifier that occurs only past position 100 is never run, stored or
\* listed.
C9_OnlyFirstHundredConsidered ==
    /\ total <= MAX_REACTORS_PER_POST
    /\ idx <= MAX_REACTORS_PER_POST + 1
    /\ \A u \in PastCap :
          /\ u \notin RunUrns
          /\ u \notin LeadUrns \cup SkippedUrns
          /\ RowsOf(store, u) = {}

\* a completed batch of more than 100 identifiers whose 100th became a Lead
C9_Witness ==
    /\ status = "completed"
    /\ Len(input) > MAX_REACTORS_PER_POST
    /\ total = MAX_REACTORS_PER_POST
    /\ LeadPos = {MAX_REACTORS_PER_POST}

\* the last two upserts were for the same identifier with different values
TwiceInSequence ==
    /\ Len(calls) >= 2
    /\ calls[Len(calls) - 1].urn = calls[Len(calls)].urn
    /\ calls[Len(calls) - 1] # calls[Len(calls)]

\* C10: after two upserts in sequence for the same identifier with different
\* field values, the store holds exactly one record for the identifier, and
\* it holds the values of the second upsert.
C10_UpsertTwiceKeepsOneLatest ==
    TwiceInSequence =>
        /\ Cardinality(RowsOf(store, calls[Len(calls)].urn)) = 1
        /\ store[Lookup(store, calls[Len(calls)].urn)] = calls[Len(calls)]

\* two upserts of an identifier the table did not hold: a create, then an
\* update
C10_Witness ==
    /\ Len(calls) = 2
    /\ TwiceInSequence
    /\ RowsOf(initStore, calls[1].urn) = {}

----------------------------------------------------------------------------
(* Claims on the short batches *)

StageOrder ==
    <<"Pending", "Enriching", "Summarizing", "Evaluating", "Validating",
      "Persisting", "Done">>

StageRank(st) == CHOOSE k \in 1..Len(StageOrder) : StageOrder[k] = st

\* a run stays where it is, takes the next stage, or leaves a non-terminal
\* stage for Skipped
ForwardStep(from, to) ==
    \/ to = from
    \/ from # "Skipped" /\ to # "Skipped" /\ StageRank(to) = StageRank(from) + 1
    \/ from \notin {"Done", "Skipped"} /\ to = "Skipped"

\* every run is kept, for the same position and identifier, and steps forward
RunsStepForward ==
    /\ Len(runs') >= Len(runs)
    /\ \A i \in RunIndices :
          /\ runs'[i].pos = runs[i].pos
          /\ runs'[i].urn = runs[i].urn
          /\ ForwardStep(runs[i].stage, runs'[i].stage)

\* C12 (as stated): within one job each identifier has at most one pipeline
\* run, and a run moves only forward through the stages or from a
\* non-terminal stage to Skipped; Done and Skipped are never left.
C12_EachIdentifierEnteredOnce ==
    /\ [][RunsStepForward]_vars
    /\ [](\A i, j \in RunIndices : runs[i].urn = runs[j].urn => i = j)

\* C12 (amended): within one job each position of the capped batch has at
\* most one pipeline run, and a run moves only forward through the stages or
\* from a non-terminal stage to Skipped; Done and Skipped are never left.
C12_EachPositionEnteredOnce ==
    /\ [][RunsStepForward]_vars
    /\ [](\A i, j \in RunIndices : runs[i].pos = runs[j].pos => i = j)

\* an identifier submitted twice whose first run was skipped and whose second
\* run, at the next position, went through every stage
C12_Witness ==
    /\ Len(runs) = 2
    /\ runs[1].urn = runs[2].urn
    /\ runs[1].stage = "Skipped" /\ runs[1].pos = 1
    /\ runs[2].stage = "Done" /\ runs[2].pos = 2

\* the stages in which a pipeline thread is doing its work
Executing(r) ==
    r.stage \in {"Enriching", "Summarizing", "Evaluating", "Validating", "Persisting"}

\* C13: at most one pipeline of the job is executing at any time, and the
\* worker submits the pipeline of the next identifier only when every earlier
\* pipeline of the job, an abandoned one included, has returned.
C13_AtMostOnePipelineExecuting ==
    /\ [][Len(runs') > Len(runs) => \A i \in RunIndices : Terminal(runs[i])]_vars
    /\ [](Cardinality({i \in RunIndices : Executing(runs[i])}) <= 1)

\* C14: once the status is completed or failed, no step changes the status,
\* the progress counters, the leads or the skipped list.
C14_TerminalOnceNotProcessing ==
    [][status # "processing" =>
          /\ status' = status
          /\ current' = current
          /\ total' = total
          /\ leads' = leads
          /\ skipped' = skipped]_vars

\* the job is completed while a pipeline it abandoned has looked up its
\* record and is about to write it
C14_Witness ==
    /\ status = "completed"
    /\ \E i \in RunIndices :
          runs[i].pos \in abandoned /\ runs[i].stage = "Persisting" /\ runs[i].found >= 0

IsPrefix(a, b) == Len(a) <= Len(b) /\ SubSeq(b, 1, Len(a)) = a

EvaluationUnparsed(r) == r.fit = EvaluatorDefault
ValidationUnparsed(r) == r.vreason = ValidationUnavailable

\* the lead of run i is in the job's results and the store holds a record
\* for its identifier: the lead itself, unless another run of the job had
\* the same identifier
ListedAndStored(i) ==
    /\ LeadOf(runs[i]) \in Range(leads)
    /\ RowsOf(store, runs[i].urn) # {}
    /\ (\A j \in RunIndices : runs[j].urn = runs[i].urn => j = i) =>
          \E k \in RowsOf(store, runs[i].urn) : store[k] = LeadOf(runs[i])

C17_LeadLabelsEnumerated ==
    \A k \in 1..Len(leads) :
        /\ leads[k].icp_fit_strength \in FitStrengths
        /\ leads[k].validation_judgement \in Judgements

\* C18: a Lead is in the job's results only after the whole pipeline of its
\* identifier, the Persisting stage included, has succeeded: for every Lead
\* in the results the store holds a record with the same identifier.
C18_ListedLeadIsStored ==
    \A k \in 1..Len(leads) : RowsOf(store, leads[k].urn) # {}

\* the person an identifier stands for, and the source it came through
PersonOf(urn) == ((urn - 1) % NumPersons) + 1
SourceOf(urn) == IF urn <= NumPersons THEN "post" ELSE "manual"

\* the identifiers under which the store held person p when the job started
StoredAs(p) == {initStore[k].urn : k \in {j \in 1..Len(initStore) :
                                              PersonOf(initStore[j].urn) = p}}

FirstInBatch(k) == \A j \in 1..(k - 1) : URNAt(j) # URNAt(k)

\* C19 (as stated): in a completed job, a person whom the store held when
\* the job started, through whichever source, was recognised as already
\* processed: the position is deduplicated and no pipeline ran for it.
C19_DedupWhateverTheSource ==
    status = "completed" =>
        \A k \in 1..NumCapped :
            StoredAs(PersonOf(URNAt(k))) # {} =>
                k \in deduped /\ \A i \in RunIndices : runs[i].pos # k

\* C19 (amended): a position is deduplicated only when the store holds a
\* record with exactly its identifier; in a completed job, a person whom the
\* store held under the identifier of the job's own source was deduplicated
\* and not run, and a person whom it held only under the identifier of the
\* other source was not recognised: the first position of that person was
\* run as a new profile.
C19_DedupWithinOneSource ==
    /\ \A k \in deduped : RowsOf(store, URNAt(k)) # {}
    /\ status = "completed" =>
          \A k \in 1..NumCapped :
              IF URNAt(k) \in StoredAs(PersonOf(URNAt(k)))
              THEN k \in deduped /\ \A i \in RunIndices : runs[i].pos # k
              ELSE FirstInBatch(k) =>
                      k \notin deduped /\ \E i \in RunIndices : runs[i].pos = k

\* a completed manual job on a person stored earlier as a post reactor: the
\* person was processed again and the store holds two records of the person
C19_Witness ==
    /\ status = "completed"
    /\ NumCapped = 1
    /\ SourceOf(URNAt(1)) = "manual"
    /\ StoredAs(PersonOf(URNAt(1))) = {ApifyUrn(PersonOf(URNAt(1)))}
    /\ LeadPos = {1}
    /\ Cardinality({k \in 1..Len(store) :
                       PersonOf(store[k].urn) = PersonOf(URNAt(1))}) = 2

\* the rubric has a line for this key
HasLine(key) == \E k \in 1..Len(rubric) : rubric[k].label = key

\* C20: an optional refinement is in the posted criteria, trimmed, and has a
\* line in the rendered rubric exactly when its value is not empty after
\* trimming; no line of the rubric is empty or blank, and with only the
\* description set the rubric is the description line alone.
C20_RefinementsOnlyIfNonEmpty ==
    /\ pc \in {"posted", "rendered"} =>
          \A f \in Range(OptionalFields) :
              /\ KeyOf[f] \in DOMAIN request.custom_criteria <=> Trim(page[f]) # <<>>
              /\ KeyOf[f] \in DOMAIN request.custom_criteria =>
                    request.custom_criteria[KeyOf[f]] = Trim(page[f])
    /\ pc = "rendered" =>
          /\ \A f \in Range(OptionalFields) : HasLine(KeyOf[f]) <=> Trim(page[f]) # <<>>
          /\ \A k \in 1..Len(rubric) : Trim(rubric[k].text) # <<>>
          /\ \A j, k \in 1..Len(rubric) : rubric[j].label = rubric[k].label => j = k
          /\ (\A f \in Range(OptionalFields) : Trim(page[f]) = <<>>) =>
                rubric = <<RubricLine("use_case_description", page.useCaseDescription)>>

\* the rubric rendered for a form with blank roles, padded industries, no
\* company size and no additional requirements
C20_Witness ==
    /\ pc = "rendered"
    /\ page.targetRoles = <<" ">>
    /\ page.targetIndustries = <<" ", "a">>
    /\ page.companySize = <<>>
    /\ page.additionalRequirements = <<>>
    /\ Len(rubric) = 2
    /\ rubric[2] = RubricLine("target_industries", <<"a">>)

----------------------------------------------------------------------------
(* The portal's login: the middleware, the login route and the login page. *)
(* A path is a sequence of characters                                      *)

backendIdle ==
    /\ input = <<>>
    /\ idx = 1
    /\ elapsed = 0
    /\ status = "processing"
    /\ current = 0
    /\ total = 0
    /\ leads = <<>>
    /\ skipped = <<>>
    /\ error = ""
    /\ runs = <<>>
    /\ abandoned = {}
    /\ deduped = {}
    /\ store = <<>>
    /\ initStore = store
    /\ calls = <<>>
    /\ rubric = <<>>

backendUnchanged ==
    UNCHANGED <<input, idx, elapsed, status, current, total, leads, skipped,
                error, runs, abandoned, deduped, store, initStore, calls, rubric>>

RootPath == <<"/">>
LoginPath == <<"/", "l", "o", "g", "i", "n">>
ManualInputPath == <<"/", "m", "a", "n", "u", "a", "l", "-", "i", "n", "p", "u", "t">>
ApiPrefix == <<"/", "a", "p", "i">>
ProcessPostPath == ApiPrefix \o <<"/", "p", "r", "o", "c", "e", "s", "s", "-", "p", "o", "s", "t">>
AuthLoginPath == ApiPrefix \o <<"/", "a", "u", "t", "h", "/", "l", "o", "g", "i", "n">>
FaviconPath == <<"/", "f", "a", "v", "i", "c", "o", "n", ".", "i", "c", "o">>

\* the paths a browser asks for
Paths == {RootPath, LoginPath, ManualInputPath, ProcessPostPath, AuthLoginPath,
          FaviconPath}

\* String.prototype.startsWith()
StartsWith(s, prefix) ==
    Len(s) >= Len(prefix) /\ SubSeq(s, 1, Len(prefix)) = prefix

\* config.matcher: the middleware runs unless what follows the first slash
\* starts with _next/static, _next/image, favicon.ico or api/auth, or has a dot
Matcher(pathname) ==
    LET rest == Tail(pathname)
    IN /\ ~StartsWith(rest, <<"_", "n", "e", "x", "t", "/", "s", "t", "a", "t", "i", "c">>)
       /\ ~StartsWith(rest, <<"_", "n", "e", "x", "t", "/", "i", "m", "a", "g", "e">>)
       /\ ~(/\ StartsWith(rest, <<"f", "a", "v", "i", "c", "o", "n">>)
            /\ Len(rest) >= Len(Tail(FaviconPath))
            /\ SubSeq(rest, Len(Tail(FaviconPath)) - 2, Len(Tail(FaviconPath)))
                   = <<"i", "c", "o">>)
       /\ ~(\E k \in 1..Len(rest) : rest[k] = ".")
       /\ ~StartsWith(rest, Tail(ApiPrefix) \o <<"/", "a", "u", "t", "h">>)

\* the cookie jar holds no auth_token, or one value
CookieJars == {<<>>, <<"authenticated">>, <<"guest">>}

NextResponse == [kind |-> "next", to |-> <<>>]
Redirect(to) == [kind |-> "redirect", to |-> to]

\* mutant: an unauthenticated request is let through
middlewareOpen(cookies, pathname) ==
    LET isAuthenticated == cookies # <<>> /\ cookies[1] = "authenticated"
        isLoginPage == pathname = LoginPath
    IN IF isAuthenticated /\ isLoginPage THEN Redirect(RootPath)
       ELSE NextResponse

middleware(cookies, pathname) ==
    LET isAuthenticated == cookies # <<>> /\ cookies[1] = "authenticated"
        isLoginPage == pathname = LoginPath
        isApiRoute == StartsWith(pathname, ApiPrefix)
    IN IF isApiRoute THEN NextResponse
       ELSE IF isAuthenticated /\ isLoginPage THEN Redirect(RootPath)
       ELSE IF ~isAuthenticated /\ ~isLoginPage THEN Redirect(LoginPath)
       ELSE NextResponse

\* what the user may type in the password field
Passwords == {"", "portal", "guess"}

BAD_REQUEST == 400
SERVICE_UNAVAILABLE == 500

\* what the backend's /api/auth/login may answer the route, or the call throws
BackendAnswers ==
    [threw : {FALSE}, status : {200, 401, 503}, success : BOOLEAN]
        \cup {[threw |-> TRUE, status |-> 0, success |-> FALSE]}

\* Response.ok
Ok(st) == st >= 200 /\ st < 300

\* the request bodies the route may be sent: a password, or no JSON at all
Bodies == [json : {TRUE}, password : Passwords]
              \cup {[json |-> FALSE, password |-> ""]}

\* mutant: the cookie is set whatever the backend said
POSTAlwaysSetsCookie(body, backend) ==
    IF ~body.json THEN [status |-> SERVICE_UNAVAILABLE, setCookie |-> FALSE]
    ELSE IF body.password = "" THEN [status |-> BAD_REQUEST, setCookie |-> FALSE]
    ELSE IF backend.threw THEN [status |-> SERVICE_UNAVAILABLE, setCookie |-> FALSE]
    ELSE IF Ok(backend.status) /\ backend.success
         THEN [status |-> 200, setCookie |-> TRUE]
    ELSE [status |-> backend.status, setCookie |-> TRUE]

\* app/api/auth/login/route.ts
POST(body, backend) ==
    IF ~body.json THEN [status |-> SERVICE_UNAVAILABLE, setCookie |-> FALSE]
    ELSE IF body.password = "" THEN [status |-> BAD_REQUEST, setCookie |-> FALSE]
    ELSE IF backend.threw THEN [status |-> SERVICE_UNAVAILABLE, setCookie |-> FALSE]
    ELSE IF Ok(backend.status) /\ backend.success
         THEN [status |-> 200, setCookie |-> TRUE]
    ELSE [status |-> backend.status, setCookie |-> FALSE]

\* Storage.setItem()
SetItem(storage, key, value) ==
    {e \in storage : e[1] # key} \cup {<<key, value>>}

InitAuth ==
    /\ backendIdle
    /\ pc = "browser"
    /\ page \in [open : {TRUE}, pathname : {<<>>}, pending : {<<>>},
                  cookies : {<<>>, <<"guest">>}, password : {""},
                  error : {""}, sessionStorage : {{}}, localStorage : {{}}]
    /\ request = NoRequest

\* the browser asks for a path: the middleware, where the matcher selects it
Fetch(pathname) ==
    LET response == IF Matcher(pathname) THEN middleware(page.cookies, pathname)
                    ELSE NextResponse
    IN /\ request' = [sent |-> TRUE, kind |-> "page", pathname |-> pathname,
                      cookies |-> page.cookies, handled |-> Matcher(pathname),
                      response |-> response]
       /\ page' = IF response.kind = "next"
                  THEN [page EXCEPT !.pathname = pathname, !.pending = <<>>,
                                    !.password = "", !.error = ""]
                  ELSE [page EXCEPT !.pending = response.to]
       /\ UNCHANGED pc
       /\ backendUnchanged

\* the user opens a path
Navigate(pathname) ==
    /\ pc = "browser"
    /\ page.pending = <<>>
    /\ Fetch(pathname)

\* the browser follows a redirect, or the router goes where it was pushed
FollowRedirect ==
    /\ pc = "browser"
    /\ page.pending # <<>>
    /\ Fetch(page.pending)

\* the user types in the password field of the login page
TypePassword(p) ==
    /\ pc = "browser"
    /\ page.pathname = LoginPath
    /\ page.pending = <<>>
    /\ page.password # p
    /\ page' = [page EXCEPT !.password = p]
    /\ UNCHANGED <<pc, request>>
    /\ backendUnchanged

\* the login page's handleSubmit(), the route answering it
LoginSubmit(backend) ==
    LET body == [json |-> TRUE, password |-> page.password]
        response == POST(body, backend)
    IN /\ pc = "browser"
       /\ page.pathname = LoginPath
       /\ page.pending = <<>>
       /\ request' = [sent |-> TRUE, kind |-> "login", body |-> body,
                      backend |-> backend, response |-> response]
       /\ page' = [page EXCEPT
                     !.cookies = IF response.setCookie THEN <<"authenticated">> ELSE @,
                     !.sessionStorage = IF Ok(response.status)
                                        THEN SetItem(@, "apiKey", page.password)
                                        ELSE @,
                     !.pending = IF Ok(response.status) THEN RootPath ELSE @,
                     !.error = IF Ok(response.status) THEN "" ELSE "Invalid password"]
       /\ UNCHANGED pc
       /\ backendUnchanged

\* the login page's handleSubmit() when the fetch itself throws
LoginSubmitThrows ==
    /\ pc = "browser"
    /\ page.pathname = LoginPath
    /\ page.pending = <<>>
    /\ page.error # "An error occurred. Please try again."
    /\ page' = [page EXCEPT !.error = "An error occurred. Please try again."]
    /\ UNCHANGED <<pc, request>>
    /\ backendUnchanged

\* any other client posts to the login route
PostLogin(body, backend) ==
    LET response == POST(body, backend)
    IN /\ pc = "browser"
       /\ page.pending = <<>>
       /\ request' = [sent |-> TRUE, kind |-> "login", body |-> body,
                      backend |-> backend, response |-> response]
       /\ page' = [page EXCEPT
                     !.cookies = IF response.setCookie THEN <<"authenticated">> ELSE @]
       /\ UNCHANGED pc
       /\ backendUnchanged

\* maxAge: the cookie expires
CookieExpires ==
    /\ pc = "browser"
    /\ page.cookies = <<"authenticated">>
    /\ page' = [page EXCEPT !.cookies = <<>>]
    /\ UNCHANGED <<pc, request>>
    /\ backendUnchanged

NextAuth ==
    \/ \E pathname \in Paths : Navigate(pathname)
    \/ FollowRedirect
    \/ \E p \in Passwords : TypePassword(p)
    \/ \E backend \in BackendAnswers : LoginSubmit(backend)
    \/ LoginSubmitThrows
    \/ \E body \in Bodies, backend \in BackendAnswers : PostLogin(body, backend)
    \/ CookieExpires

SpecAuth == InitAuth /\ [][NextAuth]_vars

----------------------------------------------------------------------------
(* The portal's login *)

\* C21: a request the middleware handles whose path does not start with /api
\* is let through exactly when it is authenticated (auth_token is
\* 'authenticated') and not for /login, or not authenticated and for /login;
\* otherwise an unauthenticated request is redirected to /login and an
\* authenticated request for /login is redirected to /
C21_MiddlewareGate ==
    (/\ request.sent
     /\ request.kind = "page"
     /\ request.handled
     /\ ~StartsWith(request.pathname, ApiPrefix)) =>
        LET auth == request.cookies = <<"authenticated">>
            login == request.pathname = LoginPath
        IN /\ request.response.kind = "next"
                 <=> ((auth /\ ~login) \/ (~auth /\ login))
           /\ (~auth /\ ~login) => request.response = Redirect(LoginPath)
           /\ (auth /\ login) => request.response = Redirect(RootPath)

\* a browser that was let through to /login without the cookie, and has the
\* cookie since, asked for /login again and was redirected to /
C21_Witness ==
    /\ request.sent
    /\ request.kind = "page"
    /\ request.handled
    /\ request.cookies = <<"authenticated">>
    /\ request.pathname = LoginPath
    /\ request.response = Redirect(RootPath)
    /\ page.pathname = LoginPath

C23_PasswordNeverStored ==
    \A e \in page.sessionStorage \cup page.localStorage : e[2] \notin Passwords

----------------------------------------------------------------------------
(* The dashboard pages (post reactors, manual input, custom evaluation):   *)
(* handleSubmit() and pollJobStatus(), with the requests in flight.  The   *)
(* backend's job is the one job of the job variables; idx is its id        *)

MAX_MANUAL_PROFILES == 100

\* bounds of the dashboard model
MaxSubmits == 2
MaxPolls == 2
MaxItems == 2
MaxLines == 2

PageKinds == {"post", "manual", "custom"}

\* the pieces a line of the textarea is made of; the needle never straddles two
Needle == "linkedin.com/in/"
LineKinds == {<<>>, <<" ">>, <<Needle, "a">>, <<" ", "LinkedIn.com/IN/", "a", " ">>,
              <<"linkedin.com/", "a">>}

\* String.prototype.toLowerCase()
ToLowerCase(line) ==
    [k \in 1..Len(line) |->
        IF line[k] = "LinkedIn.com/IN/" THEN Needle ELSE line[k]]

\* String.prototype.includes()
Includes(line, piece) == \E k \in 1..Len(line) : line[k] = piece

\* what the textarea may hold: a few lines, or a hundred or more proper ones
Textareas ==
    SeqsUpTo(LineKinds, MaxLines)
        \cup {[k \in 1..n |-> <<Needle, "a">>] :
                  n \in {MAX_MANUAL_PROFILES, MAX_MANUAL_PROFILES + 1}}

\* profileUrls.split('\n').map(url => url.trim()).filter(url => url.length > 0)
ParseUrls(text) ==
    SelectSeq([k \in 1..Len(text) |-> Trim(text[k])], LAMBDA url : Len(url) > 0)

\* mutant: the lines are not checked for the profile URL
ValidationErrorCountsOnly(text) ==
    LET urls == ParseUrls(text)
    IN IF Len(urls) = 0 THEN "Please enter at least one LinkedIn profile URL"
       ELSE IF Len(urls) > MAX_MANUAL_PROFILES
            THEN "Maximum 100 profiles allowed per batch"
       ELSE ""

\* the manual page's checks: the message of the error thrown, "" when none is
ValidationError(text) ==
    LET urls == ParseUrls(text)
        invalidUrls == SelectSeq(urls, LAMBDA url : ~Includes(ToLowerCase(url), Needle))
    IN IF Len(urls) = 0 THEN "Please enter at least one LinkedIn profile URL"
       ELSE IF Len(urls) > MAX_MANUAL_PROFILES
            THEN "Maximum 100 profiles allowed per batch"
       ELSE IF Len(invalidUrls) > 0 THEN "Invalid LinkedIn URLs found"
       ELSE ""

\* the X-API-Key header a page sends: <<>> when it sends none
ApiKeyHeader(pg) ==
    IF pg.kind = "manual" THEN <<>>
    ELSE IF pg.apiKey = <<>> THEN <<"">>
    ELSE pg.apiKey

Endpoint(pg) ==
    CASE pg.kind = "post" -> "/api/process-post"
      [] pg.kind = "manual" -> "/api/process-manual-profiles"
      [] pg.kind = "custom" -> "/api/process-post-custom"

NoData == [status |-> "", results |-> <<>>, skipped_profiles |-> <<>>, error |-> ""]

\* the job as GET /api/job-status/{job_id} reports it
JobSnapshot ==
    [status |-> status, results |-> leads, skipped_profiles |-> skipped,
     error |-> error]

RemoveAt(s, i) == SubSeq(s, 1, i - 1) \o SubSeq(s, i + 1, Len(s))

InFlight(kind) == {i \in 1..Len(request) : request[i].kind = kind}

InitDash ==
    /\ input = <<>>
    /\ idx = 0
    /\ elapsed = 0
    /\ status = "processing"
    /\ current = 0
    /\ total = 0
    /\ leads = <<>>
    /\ skipped = <<>>
    /\ error = ""
    /\ runs = <<>>
    /\ abandoned = {}
    /\ deduped = {}
    /\ store = <<>>
    /\ initStore = store
    /\ calls = <<>>
    /\ rubric = <<>>
    /\ pc = "dashboard"
    /\ \E kind \in PageKinds, key \in {<<>>, <<"portal">>}, text \in Textareas :
          /\ kind # "manual" => text = <<>>
          /\ page = [open |-> TRUE, kind |-> kind, apiKey |-> key, text |-> text,
                     isProcessing |-> FALSE, jobId |-> 0, jobStatus |-> <<>>,
                     leads |-> <<>>, skippedProfiles |-> <<>>, error |-> "",
                     timer |-> 0, submits |-> 0]
    /\ request = <<>>

dashUnchanged ==
    UNCHANGED <<input, pc, elapsed, current, total, runs, abandoned, deduped,
                store, initStore, calls, rubric>>

jobUnchanged == UNCHANGED <<idx, status, leads, skipped, error>>

\* handleSubmit() up to its fetch: the view is reset, the timer cleared, and
\* the job posted unless the manual page's checks throw
Submit ==
    LET reset == [page EXCEPT !.error = "", !.isProcessing = TRUE, !.leads = <<>>,
                              !.skippedProfiles = <<>>, !.jobStatus = <<>>,
                              !.jobId = 0, !.timer = 0, !.submits = @ + 1]
        thrown == IF page.kind = "manual" THEN ValidationError(page.text) ELSE ""
    IN /\ ~page.isProcessing
       /\ page.submits < MaxSubmits
       /\ IF thrown # ""
          THEN /\ page' = [reset EXCEPT !.error = thrown, !.isProcessing = FALSE]
               /\ UNCHANGED request
          ELSE /\ page' = reset
               /\ request' = Append(request,
                                 [kind |-> "submit", job |-> reset.submits,
                                  endpoint |-> Endpoint(page),
                                  xApiKey |-> ApiKeyHeader(page),
                                  outcome |-> "", data |-> NoData])
       /\ jobUnchanged
       /\ dashUnchanged

\* pollJobStatus() up to its fetch
PollRequest(pg, jid, outcome) ==
    [kind |-> "status", job |-> jid, endpoint |-> "/api/job-status",
     xApiKey |-> ApiKeyHeader(pg), outcome |-> outcome,
     data |-> IF outcome = "ok" THEN JobSnapshot ELSE NoData]

PollOutcomes == {"ok", "notOk", "throws"}

\* the backend starts the job and answers with its id; handleSubmit() goes on:
\* the id is kept, the timer started, and the status polled at once
SubmitOk(i, outcome) ==
    /\ i \in InFlight("submit")
    /\ idx' = request[i].job
    /\ status' = "processing"
    /\ leads' = <<>>
    /\ skipped' = <<>>
    /\ error' = ""
    /\ page' = [page EXCEPT !.jobId = request[i].job, !.timer = request[i].job]
    /\ request' = Append(RemoveAt(request, i),
                         [PollRequest(page, request[i].job, outcome)
                              EXCEPT !.data = IF outcome = "ok"
                                              THEN [NoData EXCEPT !.status = "processing"]
                                              ELSE NoData])
    /\ dashUnchanged

\* the answer is not OK, holds no job id, or the fetch throws
SubmitFails(i) ==
    /\ i \in InFlight("submit")
    /\ page' = [page EXCEPT !.error = "Failed to start processing",
                            !.isProcessing = FALSE]
    /\ request' = RemoveAt(request, i)
    /\ jobUnchanged
    /\ dashUnchanged

\* the 20-second interval fires: pollJobStatus(data.job_id)
TimerFires(outcome) ==
    /\ page.timer # 0
    /\ page.timer = idx
    /\ Cardinality(InFlight("status")) < MaxPolls
    /\ request' = Append(request, PollRequest(page, page.timer, outcome))
    /\ UNCHANGED page
    /\ jobUnchanged
    /\ dashUnchanged

\* mutant: a status that is not terminal stops the polling as well
PollAnsweredStopsAlways(pg, data) ==
    LET shown == [pg EXCEPT
                    !.jobStatus = <<data>>,
                    !.leads = IF Len(data.results) > 0 THEN data.results ELSE @,
                    !.skippedProfiles = IF Len(data.skipped_profiles) > 0
                                        THEN data.skipped_profiles ELSE @]
    IN IF data.status = "failed"
       THEN [shown EXCEPT !.error = IF data.error # "" THEN data.error ELSE "Job failed",
                          !.isProcessing = FALSE, !.timer = 0]
       ELSE [shown EXCEPT !.leads = data.results,
                          !.skippedProfiles = data.skipped_profiles,
                          !.isProcessing = FALSE, !.timer = 0]

\* pollJobStatus() after an OK answer
PollAnswered(pg, data) ==
    LET shown == [pg EXCEPT
                    !.jobStatus = <<data>>,
                    !.leads = IF Len(data.results) > 0 THEN data.results ELSE @,
                    !.skippedProfiles = IF Len(data.skipped_profiles) > 0
                                        THEN data.skipped_profiles ELSE @]
    IN IF data.status = "completed"
       THEN [shown EXCEPT !.leads = data.results,
                          !.skippedProfiles = data.skipped_profiles,
                          !.isProcessing = FALSE, !.timer = 0]
       ELSE IF data.status = "failed"
       THEN [shown EXCEPT !.error = IF data.error # "" THEN data.error ELSE "Job failed",
                          !.isProcessing = FALSE, !.timer = 0]
       ELSE shown

\* a status answer arrives, in any order: pollJobStatus() goes on
PollResponse(i) ==
    /\ i \in InFlight("status")
    /\ request[i].outcome = "ok"
    /\ page' = PollAnswered(page, request[i].data)
    /\ request' = RemoveAt(request, i)
    /\ jobUnchanged
    /\ dashUnchanged

\* the answer is not OK or the fetch throws: logged, nothing else
PollError(i) ==
    /\ i \in InFlight("status")
    /\ request[i].outcome # "ok"
    /\ request' = RemoveAt(request, i)
    /\ UNCHANGED page
    /\ jobUnchanged
    /\ dashUnchanged

\* the job lists one more lead
JobAddsLead ==
    /\ idx # 0
    /\ status = "processing"
    /\ Len(leads) + Len(skipped) < MaxItems
    /\ leads' = Append(leads, Len(leads) + Len(skipped) + 1)
    /\ UNCHANGED <<idx, status, skipped, error, page, request>>
    /\ dashUnchanged

\* the job lists one more skipped profile
JobAddsSkipped ==
    /\ idx # 0
    /\ status = "processing"
    /\ Len(leads) + Len(skipped) < MaxItems
    /\ skipped' = Append(skipped, Len(leads) + Len(skipped) + 1)
    /\ UNCHANGED <<idx, status, leads, error, page, request>>
    /\ dashUnchanged

JobCompletes ==
    /\ idx # 0
    /\ status = "processing"
    /\ status' = "completed"
    /\ UNCHANGED <<idx, leads, skipped, error, page, request>>
    /\ dashUnchanged

\* the job fails before it has processed a profile
JobFails ==
    /\ idx # 0
    /\ status = "processing"
    /\ leads = <<>> /\ skipped = <<>>
    /\ status' = "failed"
    /\ error' = "fetch failed"
    /\ UNCHANGED <<idx, leads, skipped, page, request>>
    /\ dashUnchanged

NextDash ==
    \/ Submit
    \/ \E i \in 1..Len(request), outcome \in PollOutcomes : SubmitOk(i, outcome)
    \/ \E i \in 1..Len(request) : SubmitFails(i)
    \/ \E outcome \in PollOutcomes : TimerFires(outcome)
    \/ \E i \in 1..Len(request) : PollResponse(i)
    \/ \E i \in 1..Len(request) : PollError(i)
    \/ JobAddsLead
    \/ JobAddsSkipped
    \/ JobCompletes
    \/ JobFails

SpecDash == InitDash /\ [][NextDash]_vars

----------------------------------------------------------------------------
(* The dashboard pages *)

\* the step is the arrival of the status answer in flight at position i
Arrives(i) ==
    /\ i \in 1..Len(request)
    /\ request[i].kind = "status"
    /\ request' = RemoveAt(request, i)

\* C24: a status answer that reports completed or failed clears the timer and
\* sets isProcessing to false; an answer that reports processing, an answer
\* that is not OK and a fetch that throws leave both as they were
C24_PollingStopsAtTerminal ==
    [][\A i \in 1..Len(request) :
          Arrives(i) =>
             IF /\ request[i].outcome = "ok"
                /\ request[i].data.status \in {"completed", "failed"}
             THEN page'.timer = 0 /\ ~page'.isProcessing
             ELSE /\ page'.timer = page.timer
                  /\ page'.isProcessing = page.isProcessing]_vars

\* the page showed a completed job with a lead: the timer is cleared and the
\* form enabled again, while an answer still in flight has changed nothing yet
C24_Witness ==
    /\ page.jobStatus # <<>>
    /\ page.jobStatus[1].status = "completed"
    /\ Len(page.leads) >= 1
    /\ page.timer = 0
    /\ ~page.isProcessing
    /\ \E i \in InFlight("status") : request[i].outcome = "throws"

\* the textarea yields no line, more than a hundred, or a line without the
\* profile URL marker in any letter case
Rejected(text) ==
    LET lines == {k \in 1..Len(text) : Trim(text[k]) # <<>>}
    IN \/ lines = {}
       \/ Cardinality(lines) > MAX_MANUAL_PROFILES
       \/ \E k \in lines : ~Includes(ToLowerCase(text[k]), Needle)

\* C25: on the manual-input page a submit of a textarea with no non-empty
\* line, more than 100 of them, or a line without 'linkedin.com/in/' sends no
\* request, starts no timer, shows an error and ends with isProcessing false
C25_RejectedSubmitSendsNothing ==
    [][(/\ page.kind = "manual"
        /\ page'.submits = page.submits + 1
        /\ Rejected(page.text)) =>
           /\ request' = request
           /\ page'.timer = 0
           /\ page'.error # ""
           /\ ~page'.isProcessing]_vars

\* a submit of a proper line in capitals followed by a line without the
\* marker was rejected: nothing is in flight, no timer, an error is shown
C25_Witness ==
    /\ page.kind = "manual"
    /\ page.text = << <<" ", "LinkedIn.com/IN/", "a", " ">>, <<"linkedin.com/", "a">> >>
    /\ page.submits = 1
    /\ request = <<>>
    /\ page.timer = 0
    /\ page.error = "Invalid LinkedIn URLs found"
    /\ ~page.isProcessing
    /\ idx = 0

\* C26: every job-submission and job-status request of a dashboard page
\* carries the API key in its X-API-Key header
C26_EveryRequestCarriesKey ==
    \A i \in 1..Len(request) :
        /\ request[i].xApiKey # <<>>
        /\ page.apiKey # <<>> => request[i].xApiKey = page.apiKey

\* C27: a status answer for a job older than the last one submitted changes
\* nothing of the view: not the timer, not isProcessing, not the status, the
\* leads or the skipped profiles displayed
C27_StaleAnswerChangesNothing ==
    [][\A i \in 1..Len(request) :
          (Arrives(i) /\ request[i].job < page.submits) =>
             /\ page'.timer = page.timer
             /\ page'.isProcessing = page.isProcessing
             /\ page'.jobStatus = page.jobStatus
             /\ page'.leads = page.leads
             /\ page'.skippedProfiles = page.skippedProfiles]_vars

\* C28: between one submit and the next the numbers of leads and of skipped
\* profiles displayed never decrease, whatever the order of the answers
C28_DisplayedCountsNeverDecrease ==
    [][page'.submits = page.submits =>
          /\ Len(page'.leads) >= Len(page.leads)
          /\ Len(page'.skippedProfiles) >= Len(page.skippedProfiles)]_vars

----------------------------------------------------------------------------
(* Concurrent jobs on one record store.  Each job is an independent worker *)
(* with a batch of one identifier: input[j] is the identifier of job j,    *)
(* and a run's pos is the job it belongs to                                *)

NumJobs == 2

Checked(j) == j \in deduped \/ \E i \in 1..Len(runs) : runs[i].pos = j

InitJobs ==
    /\ input \in [1..NumJobs -> 1..NumPersons]
    /\ pc = "jobs"
    /\ idx = 1
    /\ elapsed = 0
    /\ status = "processing"
    /\ current = 0
    /\ total = 0
    /\ leads = <<>>
    /\ skipped = <<>>
    /\ error = ""
    /\ runs = <<>>
    /\ abandoned = {}
    /\ deduped = {}
    /\ \E known \in SUBSET (1..NumPersons) : store = RowsFor(known)
    /\ initStore = store
    /\ calls = <<>>
    /\ page = NoPage
    /\ request = NoRequest
    /\ rubric = <<>>

\* job j finds its identifier in the store and omits it
JobSkipsExisting(j) ==
    /\ pc = "jobs"
    /\ ~Checked(j)
    /\ UrnExists(store, input[j])
    /\ deduped' = deduped \cup {j}
    /\ UNCHANGED <<input, pc, idx, elapsed, status, current, total, leads, skipped,
                   error, runs, abandoned, store, initStore, calls,
                   page, request, rubric>>

\* job j does not find its identifier and hands it to its pipeline
JobSubmitsProfile(j) ==
    /\ pc = "jobs"
    /\ ~Checked(j)
    /\ ~UrnExists(store, input[j])
    /\ runs' = Append(runs, NewRun(j, input[j]))
    /\ UNCHANGED <<input, pc, idx, elapsed, status, current, total, leads, skipped,
                   error, abandoned, deduped, store, initStore, calls,
                   page, request, rubric>>

NextJobs ==
    \/ \E j \in 1..NumJobs : JobSkipsExisting(j)
    \/ \E j \in 1..NumJobs : JobSubmitsProfile(j)
    \/ \E i \in 1..Len(runs) : PipeStart(i)
    \/ \E i \in 1..Len(runs) : EnrichOk(i)
    \/ \E i \in 1..Len(runs) : EnrichFail(i)
    \/ \E i \in 1..Len(runs) : SummarizeOk(i)
    \/ \E i \in 1..Len(runs) : SummarizeFail(i)
    \/ \E i \in 1..Len(runs) : EvaluateOk(i)
    \/ \E i \in 1..Len(runs) : EvaluateFail(i)
    \/ \E i \in 1..Len(runs) : ValidateOk(i)
    \/ \E i \in 1..Len(runs) : ValidateFail(i)
    \/ \E i \in 1..Len(runs) : PersistLookup(i)
    \/ \E i \in 1..Len(runs) : PersistWrite(i)
    \/ \E i \in 1..Len(runs) : PersistFail(i)

SpecJobs == InitJobs /\ [][NextJobs]_vars

----------------------------------------------------------------------------
(* Concurrent jobs, and the job as a poll sees it *)

\* C29: two jobs that run concurrently and process the same new identifier
\* never leave two records for it in the store
C29_OneRecordPerIdentifier ==
    \A u \in 1..NumPersons :
        (RowsOf(initStore, u) = {} /\ \A j \in 1..NumJobs : input[j] = u) =>
            Cardinality(RowsOf(store, u)) <= 1

====
